---- MODULE Spec2Model ----
(***************************************************************************)
(* Greenland choke-point monitor (src/greenland_chokepoints.py): the       *)
(* classifier, the priority-alert rules, the cross-invocation dwell        *)
(* tracker and the capped alert list, as a state machine.                  *)
(*                                                                         *)
(* Strings are sequences of one-character strings, so that strip, upper,   *)
(* lower and startswith are computed as Python computes them.  Time is in  *)
(* whole seconds: timestamps are written with '%Y-%m-%d %H:%M:%S' (second  *)
(* precision), and for whole-second s and a clock reading c + f with       *)
(* 0 <= f < 1, s > c + f - 48h is the same as s > c - 48h, so the          *)
(* microseconds of datetime.utcnow() never decide a comparison.            *)
(***************************************************************************)
EXTENDS Integers, Sequences, FiniteSets, TLC

VARIABLES
    now,              \* the UTC clock, in seconds
    dwell_file,       \* data/aircraft_dwell.json
    alerts_file,      \* data/priority_alerts.json
    pc,               \* where each invocation of main stands
    all_records, all_alerts, dwell_data, current_time, existing_alerts,
                      \* the local variables of each invocation
    finished,         \* how each process's last invocation ended
    runs, ticks,      \* invocations started, clock steps taken
    loaded,           \* history: the dwell store as each invocation read it
    seen,             \* history: per key, the qualifying observations of
                      \* its current stay, as invocations run one at a time
                      \* would track them
    missed,           \* history: per key, the first invocation after the
                      \* start of its current stay that had no qualifying
                      \* observation of it
    appended,         \* history: every alert ever appended to the list
    overlap,          \* history: an invocation started while another ran
    fetched,          \* history: what the network answered each invocation
    in_state, in_icao, in_pos, out_class, out_record, out_alert, out_traffic
                      \* one application of the pure functions

vars == <<now, dwell_file, alerts_file, pc, all_records, all_alerts,
          dwell_data, current_time, existing_alerts, finished, runs, ticks,
          loaded, seen, missed, appended, overlap, fetched,
          in_state, in_icao, in_pos, out_class, out_record, out_alert,
          out_traffic>>

(***************************************************************************)
(* Program constants.                                                      *)
(***************************************************************************)
SecondsPerHour == 3600
RetentionHours == 48
DwellAlertHours == 4
MaxAlerts == 100
LowAltitude == 3000
SlowVelocity == 100
ArrivalDistance == 20
MineThreshold == 50

(***************************************************************************)
(* Bounds of the model.                                                    *)
(***************************************************************************)
MaxRuns == 3
MaxCapRuns == 6
MaxConcRuns == 2
MaxCorruptRuns == 3
MaxFetchRuns == 2
MaxIntervalRuns == 3

(***************************************************************************)
(* Python values.                                                          *)
(***************************************************************************)
NoneStr == <<"None">>
NoKey == "<no key>"
Absent == [present |-> FALSE, val |-> 0]
Num(n) == [present |-> TRUE, val |-> n]

Lowers == <<"a","b","c","d","e","f","g","h","i","j","k","l","m",
            "n","o","p","q","r","s","t","u","v","w","x","y","z">>
Uppers == <<"A","B","C","D","E","F","G","H","I","J","K","L","M",
            "N","O","P","Q","R","S","T","U","V","W","X","Y","Z">>

ToUpper(c) == IF \E i \in 1..26 : Lowers[i] = c
              THEN Uppers[CHOOSE i \in 1..26 : Lowers[i] = c] ELSE c
ToLower(c) == IF \E i \in 1..26 : Uppers[i] = c
              THEN Lowers[CHOOSE i \in 1..26 : Uppers[i] = c] ELSE c
upper(s) == [i \in 1..Len(s) |-> ToUpper(s[i])]
lower(s) == [i \in 1..Len(s) |-> ToLower(s[i])]

IsSpace(c) == c \in {" ", "\t"}

RECURSIVE lstrip(_)
lstrip(s) == IF s # <<>> /\ IsSpace(Head(s)) THEN lstrip(Tail(s)) ELSE s

RECURSIVE rstrip(_)
rstrip(s) == IF s # <<>> /\ IsSpace(s[Len(s)])
             THEN rstrip(SubSeq(s, 1, Len(s) - 1)) ELSE s

strip(s) == rstrip(lstrip(s))

\* x or '' : None and the empty string both give ''.
OrEmpty(s) == IF s = NoneStr THEN <<>> ELSE s

startswith(s, prefix) ==
    /\ Len(s) >= Len(prefix)
    /\ SubSeq(s, 1, Len(prefix)) = prefix

startswithAny(s, prefixes) ==
    \E i \in 1..Len(prefixes) : startswith(s, prefixes[i])

(***************************************************************************)
(* Static configuration.                                                   *)
(***************************************************************************)
BGBW == <<"B","G","B","W">>
BGGH == <<"B","G","G","H">>
BGSF == <<"B","G","S","F">>
PollOrder == <<BGBW, BGGH, BGSF>>

CHOKE_POINTS(icao) ==
    IF icao = BGBW
      THEN [name |-> "Narsarsuaq", signal |-> "RED",
            monitoring_radius_km |-> 50]
    ELSE IF icao = BGGH
      THEN [name |-> "Nuuk", signal |-> "YELLOW",
            monitoring_radius_km |-> 40]
    ELSE [name |-> "Kangerlussuaq", signal |-> "LOW",
          monitoring_radius_km |-> 40]

SCHEDULED_CALLSIGN_PREFIXES ==
    << <<"G","R","L">>, <<"I","C","E">>, <<"F","L","I">>,
       <<"S","A","S">>, <<"D","A","T">> >>

MilitaryUS == << <<"R","C","H">>, <<"R","R","R">>, <<"R","E","A","C","H">>,
                 <<"C","N","V">>, <<"D","U","K","E">> >>
MilitaryDK == << <<"D","A","F">>, <<"D","N","K">>,
                 <<"D","A","N","S","U","P">> >>
MilitaryCA == << <<"C","F","C">>, <<"C","F","F">>,
                 <<"C","A","N","F","O","R","C","E">> >>
CanadianBlocks == << <<"c","0">>, <<"c","1">>, <<"c","2">>, <<"c","3">> >>

(***************************************************************************)
(* classify_aircraft: the first matching rule, top to bottom.              *)
(***************************************************************************)
Class(p, c) == [priority |-> p, classification |-> c]

classify_registration_first(callsign_in, icao24_in) ==
    LET callsign == upper(strip(OrEmpty(callsign_in)))
        icao24 == lower(OrEmpty(icao24_in))
    IN  IF startswith(icao24, <<"a">>)
          THEN Class(1, "private_us")
        ELSE IF startswithAny(icao24, CanadianBlocks)
          THEN Class(1, "private_ca")
        ELSE IF startswithAny(callsign, SCHEDULED_CALLSIGN_PREFIXES)
          THEN Class(5, "scheduled")
        ELSE IF startswithAny(callsign, MilitaryUS)
          THEN Class(4, "military_us")
        ELSE IF startswithAny(callsign, MilitaryDK)
          THEN Class(4, "military_dk")
        ELSE IF startswithAny(callsign, MilitaryCA)
          THEN Class(4, "military_ca")
        ELSE IF startswith(icao24, <<"4">>)
          THEN Class(2, "private_eu")
        ELSE IF startswith(icao24, <<"t","f">>)
          THEN Class(2, "private_is")
        ELSE Class(3, "unknown")

classify_aircraft(callsign_in, icao24_in) ==
    LET callsign == upper(strip(OrEmpty(callsign_in)))
        icao24 == lower(OrEmpty(icao24_in))
    IN  IF startswithAny(callsign, SCHEDULED_CALLSIGN_PREFIXES)
          THEN Class(5, "scheduled")
        ELSE IF startswithAny(callsign, MilitaryUS)
          THEN Class(4, "military_us")
        ELSE IF startswithAny(callsign, MilitaryDK)
          THEN Class(4, "military_dk")
        ELSE IF startswithAny(callsign, MilitaryCA)
          THEN Class(4, "military_ca")
        ELSE IF startswith(icao24, <<"a">>)
          THEN Class(1, "private_us")
        ELSE IF startswithAny(icao24, CanadianBlocks)
          THEN Class(1, "private_ca")
        ELSE IF startswith(icao24, <<"4">>)
          THEN Class(2, "private_eu")
        ELSE IF startswith(icao24, <<"t","f">>)
          THEN Class(2, "private_is")
        ELSE Class(3, "unknown")

(***************************************************************************)
(* process_aircraft.  A state vector is a list of len fields: icao24,      *)
(* callsign, the position (pos: longitude and latitude are both there),    *)
(* altitude, on_ground ("True", "False" or "None") and velocity (optional  *)
(* numbers); dist is the haversine distance of the position from the choke *)
(* point the vector was fetched for, in whole metres.  t is the clock      *)
(* reading.                                                                *)
(***************************************************************************)
Truthy(on_ground) == on_ground = "True"

\* state[8] if len(state) > 8 else None; state[9] if len(state) > 9 else None
OnGround(st) == IF st.len > 8 THEN st.on_ground ELSE "None"
Velocity(st) == IF st.len > 9 THEN st.velocity ELSE Absent

\* Python's x or y and x and y give one of their operands: "True",
\* "False" or "None" here.
PyBool(b) == IF b THEN "True" ELSE "False"
PyOr(x, y) == IF Truthy(x) THEN x ELSE y
PyAnd(x, y) == IF Truthy(x) THEN y ELSE x

likely_arrival_within(st) ==
    LET is_low == PyBool(st.altitude.present /\ st.altitude.val < LowAltitude)
        is_slow == PyBool(Velocity(st).present
                          /\ Velocity(st).val < SlowVelocity)
    IN  PyAnd(PyOr(OnGround(st), PyAnd(is_low, is_slow)),
              PyBool(st.dist <= ArrivalDistance * 1000))

likely_arrival(st) ==
    LET is_low == PyBool(st.altitude.present /\ st.altitude.val < LowAltitude)
        is_slow == PyBool(Velocity(st).present
                          /\ Velocity(st).val < SlowVelocity)
    IN  PyAnd(PyOr(OnGround(st), PyAnd(is_low, is_slow)),
              PyBool(st.dist < ArrivalDistance * 1000))

\* round(distance_km, 1), in tenths of a kilometre (a tie goes to the even
\* tenth).
RoundKm(metres) ==
    LET q == metres \div 100
        r == metres % 100
    IN  IF r > 50 \/ (r = 50 /\ q % 2 = 1) THEN q + 1 ELSE q

process_aircraft(st, airport_icao, t) ==
    LET callsign == strip(OrEmpty(st.callsign))
        cls == classify_aircraft(callsign, st.icao24)
    IN  [timestamp |-> t,
         airport_icao |-> airport_icao,
         airport_signal |-> CHOKE_POINTS(airport_icao).signal,
         icao24 |-> st.icao24,
         callsign |-> callsign,
         altitude_m |-> st.altitude,
         velocity_ms |-> Velocity(st),
         on_ground |-> OnGround(st),
         distance_km |-> RoundKm(st.dist),
         likely_arrival |-> likely_arrival(st),
         priority |-> cls.priority,
         classification |-> cls.classification]

(***************************************************************************)
(* fetch_airport_traffic.  answers is what the network would give to the   *)
(* successive requests for one choke point; the function makes one         *)
(* request.  requests.get raises ("exception": a timeout, a connection     *)
(* error), or gives a response with a status; the body of a 200 parses to  *)
(* an object with a list of state vectors, or does not (json() raises,     *)
(* 'states' is null: parsed is FALSE).  The result is None or the list of  *)
(* the vectors within the monitoring radius.                               *)
(***************************************************************************)
NoStates == [none |-> TRUE, states |-> <<>>]
States(list) == [none |-> FALSE, states |-> list]

InRadius(st, airport_icao) ==
    /\ ~(st.len < 8 \/ ~st.pos)
    /\ st.dist <= CHOKE_POINTS(airport_icao).monitoring_radius_km * 1000

Respond(airport_icao, response) ==
    IF response.status = "exception" THEN NoStates
    ELSE IF response.status = "429" THEN NoStates
    ELSE IF response.status # "200" THEN NoStates
    ELSE IF ~response.parsed THEN NoStates
    ELSE States(SelectSeq(response.states,
                          LAMBDA st : InRadius(st, airport_icao)))

fetch_with_retry(airport_icao, answers) ==
    IF Respond(airport_icao, answers[1]).none /\ Len(answers) > 1
    THEN Respond(airport_icao, answers[2])
    ELSE Respond(airport_icao, answers[1])

fetch_airport_traffic(airport_icao, answers) ==
    Respond(airport_icao, answers[1])

(***************************************************************************)
(* generate_priority_alert.  An alert is a dictionary; a key a dictionary  *)
(* does not have is NoKey (NoTime for a time).  who is the callsign, or the *)
(* icao24 when the callsign is empty; icao24 is that of the alert's        *)
(* 'record' (or 'data').  NoAlert is Python's None.                        *)
(***************************************************************************)
NoTime == -1

NoAlert == [type |-> NoKey, level |-> "None", priority |-> NoKey,
            timestamp |-> NoTime, who |-> <<>>, airport |-> <<>>,
            icao24 |-> NoneStr, first_seen |-> NoTime, last_seen |-> NoTime]

Who(callsign, icao24) == IF callsign # <<>> THEN callsign ELSE icao24

PriorityAlert(record, level) ==
    [type |-> NoKey, level |-> level, priority |-> NoKey,
     timestamp |-> record.timestamp,
     who |-> Who(record.callsign, record.icao24),
     airport |-> record.airport_icao, icao24 |-> record.icao24,
     first_seen |-> NoTime, last_seen |-> NoTime]

generate_alert_ignoring_signal(record) ==
    IF record.priority = 1 /\ record.airport_signal = "RED"
      THEN PriorityAlert(record, "CRITICAL")
    ELSE IF record.priority = 1
      THEN PriorityAlert(record, "HIGH")
    ELSE IF record.priority = 2
      THEN PriorityAlert(record, "MEDIUM")
    ELSE NoAlert

generate_alert_unordered(record) ==
    LET airport == CHOKE_POINTS(record.airport_icao)
    IN  IF record.priority = 1
          THEN PriorityAlert(record, "HIGH")
        ELSE IF record.priority = 1 /\ airport.signal = "RED"
          THEN PriorityAlert(record, "CRITICAL")
        ELSE IF record.priority = 2 /\ airport.signal = "RED"
          THEN PriorityAlert(record, "MEDIUM")
        ELSE NoAlert

generate_priority_alert(record) ==
    LET airport == CHOKE_POINTS(record.airport_icao)
    IN  IF record.priority = 1 /\ airport.signal = "RED"
          THEN PriorityAlert(record, "CRITICAL")
        ELSE IF record.priority = 1
          THEN PriorityAlert(record, "HIGH")
        ELSE IF record.priority = 2 /\ airport.signal = "RED"
          THEN PriorityAlert(record, "MEDIUM")
        ELSE NoAlert

(***************************************************************************)
(* update_dwell_tracking.  The dwell store is a JSON object, read into a   *)
(* dictionary that keeps insertion order: a sequence of entries with       *)
(* pairwise distinct keys.                                                 *)
(***************************************************************************)
DwellKey(icao24, airport_icao) == icao24 \o <<"_">> \o airport_icao

HasKey(dd, key) == \E i \in 1..Len(dd) : dd[i].key = key

IndexOf(dd, key) == CHOOSE i \in 1..Len(dd) : dd[i].key = key

\* The hours cut to the tenth below.
TruncateTenths(seconds) == seconds \div 360

\* round(seconds / 3600, 1), in tenths of an hour.  A tie goes to the even
\* tenth where the hours are exact in binary floating point: the ties of
\* the model are odd multiples of a quarter of an hour, which are.
RoundTenths(seconds) ==
    LET q == seconds \div 360
        r == seconds % 360
    IN  IF r > 180 \/ (r = 180 /\ q % 2 = 1) THEN q + 1 ELSE q

NewEntry(record) ==
    [key |-> DwellKey(record.icao24, record.airport_icao),
     icao24 |-> record.icao24,
     callsign |-> record.callsign,
     airport_icao |-> record.airport_icao,
     first_seen |-> record.timestamp,
     last_seen |-> record.timestamp,
     classification |-> record.classification,
     dwell_tenths |-> -1]

QualifiesUnlessAirborne(record) ==
    record.on_ground # "False" /\ ~(record.priority > 2)

Qualifies(record) == Truthy(record.on_ground) /\ ~(record.priority > 2)

ApplyRecordReplaces(dd, record) ==
    LET key == DwellKey(record.icao24, record.airport_icao)
    IN  IF ~Qualifies(record) THEN dd
        ELSE IF ~HasKey(dd, key) THEN Append(dd, NewEntry(record))
        ELSE [dd EXCEPT ![IndexOf(dd, key)] = NewEntry(record)]

ApplyRecordFirstSeen(dd, record) ==
    LET key == DwellKey(record.icao24, record.airport_icao)
    IN  IF ~Qualifies(record) THEN dd
        ELSE IF ~HasKey(dd, key) THEN Append(dd, NewEntry(record))
        ELSE [dd EXCEPT ![IndexOf(dd, key)] =
                 [@ EXCEPT !.first_seen = record.timestamp + 1]]

ApplyRecord(dd, record) ==
    LET key == DwellKey(record.icao24, record.airport_icao)
    IN  IF ~Qualifies(record) THEN dd
        ELSE IF ~HasKey(dd, key) THEN Append(dd, NewEntry(record))
        ELSE [dd EXCEPT ![IndexOf(dd, key)] =
                 [@ EXCEPT !.last_seen = record.timestamp,
                           !.callsign = IF record.callsign # <<>>
                                        THEN record.callsign ELSE @]]

\* for record in records: the first n records applied to dd, in order.
RECURSIVE ApplyFirst(_, _, _)
ApplyFirst(dd, records, n) ==
    IF n = 0 THEN dd
    ELSE ApplyRecord(ApplyFirst(dd, records, n - 1), records[n])

ApplyRecords(dd, records) == ApplyFirst(dd, records, Len(records))

\* datetime.strptime raises ValueError on a timestamp that is not of the
\* format '%Y-%m-%d %H:%M:%S': Unparsable stands for any such string.  The
\* loop over the entries parses first_seen and last_seen of every entry.
Unparsable == -2

UnparsedFirstSeen(dd) ==
    \E i \in 1..Len(dd) : dd[i].first_seen = Unparsable

Unparsed(dd) ==
    \E i \in 1..Len(dd) :
        dd[i].first_seen = Unparsable \/ dd[i].last_seen = Unparsable

DwellSeconds(e) == e.last_seen - e.first_seen

WithDwellHours(dd) ==
    [i \in 1..Len(dd) |->
        [dd[i] EXCEPT !.dwell_tenths = RoundTenths(DwellSeconds(dd[i]))]]

ExtendedDwellAnywhere(e) ==
    DwellSeconds(e) >= DwellAlertHours * SecondsPerHour

ExtendedDwell(e) ==
    /\ DwellSeconds(e) >= DwellAlertHours * SecondsPerHour
    /\ e.airport_icao = BGBW

\* The alert carries the entry as 'data'; it has no 'level' and no
\* 'timestamp' key.
DwellAlert(e) ==
    [type |-> "EXTENDED_DWELL", level |-> NoKey, priority |-> "HIGH",
     timestamp |-> NoTime, who |-> Who(e.callsign, e.icao24),
     airport |-> e.airport_icao, icao24 |-> e.icao24,
     first_seen |-> e.first_seen, last_seen |-> e.last_seen]

DwellAlerts(dd) ==
    LET flagged == SelectSeq(dd, ExtendedDwell)
    IN  [i \in 1..Len(flagged) |-> DwellAlert(flagged[i])]

FreshInclusive(e, current) ==
    e.last_seen >= current - RetentionHours * SecondsPerHour

Fresh(e, current) ==
    e.last_seen > current - RetentionHours * SecondsPerHour

CleanOld(dd, current) == SelectSeq(dd, LAMBDA e : Fresh(e, current))

(***************************************************************************)
(* main: the alert list keeps its last MaxAlerts entries.                   *)
(***************************************************************************)
FirstN(s, n) == IF Len(s) <= n THEN s ELSE SubSeq(s, 1, n)

LastN(s, n) == IF Len(s) <= n THEN s ELSE SubSeq(s, Len(s) - n + 1, Len(s))

PriorityAlerts(records) ==
    SelectSeq([i \in 1..Len(records) |-> generate_priority_alert(records[i])],
              LAMBDA alert : alert # NoAlert)

\* alert_clean: the alert without its 'record'.
AlertClean(alert) ==
    IF alert.type = NoKey THEN [alert EXCEPT !.icao24 = NoneStr] ELSE alert

CleanAll(alerts) == [i \in 1..Len(alerts) |-> AlertClean(alerts[i])]

SaveAlertsOverwrites(existing, alerts) ==
    LastN(CleanAll(alerts), MaxAlerts)

SaveAlerts(existing, alerts) ==
    LastN(existing \o CleanAll(alerts), MaxAlerts)

\* print(f"  {alert['emoji']} [{alert['level']}] {alert['message']}")
\* raises KeyError on an alert without the keys: the alerts are written,
\* the map is not generated and 'Done' is not printed.
ReportOutcome(alerts) ==
    IF \E i \in 1..Len(alerts) : alerts[i].level = NoKey
    THEN "KeyError" ELSE "Done"

(***************************************************************************)
(* src/greenland_monitor.py: the second pipeline.  Its classifier, its     *)
(* registry of airports, heliports and mining projects, and the two        *)
(* lookups of process_traffic.                                             *)
(***************************************************************************)
SCHEDULED_OPERATORS ==
    << [operator |-> "AirGreenland",
        codes |-> << <<"G","R","L">>, <<"G","L">> >>],
       [operator |-> "Icelandair",
        codes |-> << <<"I","C","E">>, <<"F","I">> >>],
       [operator |-> "Atlantic_Airways",
        codes |-> << <<"F","L","I">>, <<"R","C">> >>] >>

MonitorMilitaryUS == << <<"R","C","H">>, <<"R","R","R">>, <<"C","N","V">>,
                        <<"D","U","K","E">>, <<"R","E","A","C","H">> >>
MonitorMilitaryDK == << <<"D","A","F">>, <<"D","N","K">> >>
MonitorMilitaryCA == << <<"C","F","C">>, <<"C","F","F">>,
                        <<"C","A","N","F","O","R","C","E">> >>

monitor_classify_aircraft(callsign_in, icao24_in) ==
    LET callsign == upper(strip(OrEmpty(callsign_in)))
        icao24 == lower(OrEmpty(icao24_in))
    IN  IF \E i \in 1..Len(SCHEDULED_OPERATORS) :
              startswithAny(callsign, SCHEDULED_OPERATORS[i].codes)
          THEN "scheduled"
        ELSE IF startswithAny(callsign, MonitorMilitaryUS) THEN "military"
        ELSE IF startswithAny(callsign, MonitorMilitaryDK) THEN "military"
        ELSE IF startswithAny(callsign, MonitorMilitaryCA) THEN "military"
        ELSE IF startswith(icao24, <<"a">>) THEN "private_us"
        ELSE IF \/ startswith(icao24, <<"c","0">>)
                \/ startswith(icao24, <<"c","1">>)
                \/ startswith(icao24, <<"c","2">>)
                \/ startswith(icao24, <<"c","3">>) THEN "private_ca"
        ELSE IF startswith(icao24, <<"4">>) THEN "private_eu"
        ELSE "unknown"

GREENLAND_AIRPORTS ==
    <<"BGGH", "BGSF", "BGBW", "BGTL", "BGJN", "BGKK", "BGAA", "BGCO", "BGMQ",
      "BGPT", "BGQQ", "BGUQ", "BGSS", "BGUK">>
MINING_HELIPORTS == <<"BGJH", "BGNS", "BGNN", "BGNL">>

\* {**GREENLAND_AIRPORTS, **MINING_HELIPORTS}: the airports in table
\* order, then the heliports.
all_locations == GREENLAND_AIRPORTS \o MINING_HELIPORTS

MINING_PROJECTS ==
    << [project_id |-> "tanbreez", company |-> "Critical Metals Corp"],
       [project_id |-> "kvanefjeld",
        company |-> "Energy Transition Minerals"],
       [project_id |-> "nalunaq", company |-> "Amaroq Minerals"],
       [project_id |-> "amitsoq", company |-> "GreenRoc Mining"],
       [project_id |-> "white_mountain",
        company |-> "Lumina Sustainable Materials"],
       [project_id |-> "west_greenland_hub", company |-> "Amaroq Minerals"] >>

\* haversine_km at the positions of the model: for each position, the
\* value of haversine_km(lat, lon, info['lat'], info['lon']) for every
\* entry of all_locations and of MINING_PROJECTS, in whole metres.  At
\* each position the metres are ordered, and compare with 50 km, as the
\* floating-point values do; the two equal distances of the sixth position
\* are equal as floating-point values.
Positions ==
    << \* the end-to-end scenario, 4.6 km from Narsarsuaq: (61.2, -45.4)
       [airports |-> <<461286, 695264, 4608, 1912945, 931461, 636524, 904227,
                      1461570, 600209, 242000, 2005829, 1108566, 755522,
                      1365555, 64199, 47071, 118007, 112335>>,
        mines |-> <<40592, 36343, 112687, 50038, 692401, 455760>>],
      \* at Kvanefjeld: (60.98, -45.9)
       [airports |-> <<463301, 710079, 32448, 1927968, 949179, 672204, 918938,
                      1496890, 605468, 229200, 2021769, 1126125, 764784,
                      1382472, 30449, 10730, 100071, 102455>>,
        mines |-> <<4291, 0, 102755, 37239, 706727, 458320>>],
      \* at Tanbreez: (60.95, -45.95)
       [airports |-> <<464351, 712479, 36647, 1930332, 951863, 676491, 921306,
                      1501164, 606844, 228647, 2024230, 1128783, 766578,
                      1385051, 26576, 6549, 98039, 101454>>,
        mines |-> <<0, 4291, 101745, 37175, 709076, 459434>>],
      \* at Nalunaq: (60.23, -44.8)
       [airports |-> <<566046, 807873, 108931, 2025614, 1043989, 709004,
                      1016843, 1534637, 708037, 326401, 2118511, 1221104,
                      866220, 1478173, 87140, 102436, 25855, 367>>,
        mines |-> <<101745, 102755, 0, 66507, 804941, 561075>>],
      \* at Amitsoq: (60.75, -45.4)
       [airports |-> <<500044, 742650, 45667, 1960553, 980112, 677330, 951608,
                      1503255, 641614, 265726, 2053848, 1157179, 799793,
                      1413944, 35420, 39803, 68237, 66188>>,
        mines |-> <<37175, 37239, 66507, 0, 739550, 494968>>],
      \* between Qaqortoq and Narsaq heliports, at equal distance: (60.8162352193341, -46.05452983699543)
       [airports |-> <<473091, 725126, 51130, 1942821, 965232, 691808, 933845,
                      1516667, 616544, 232263, 2036981, 1142075, 777504,
                      1398132, 11174, 11174, 87460, 94405>>,
        mines |-> <<15913, 20036, 94660, 36281, 721585, 468379>>],
      \* Nuuk: (64.19, -51.68)
       [airports |-> <<136, 316941, 463689, 1498971, 562549, 702371, 506276,
                      1415287, 148430, 264603, 1597821, 728944, 321137,
                      972708, 482458, 464124, 560373, 565737>>,
        mines |-> <<464337, 463289, 566034, 500033, 308981, 8783>>],
      \* Kangerlussuaq: (67.01, -50.71)
       [airports |-> <<316598, 254, 698698, 1218185, 248735, 626675, 209223,
                      1185493, 203816, 560182, 1312131, 421638, 131434,
                      674631, 735704, 714222, 809622, 807274>>,
        mines |-> <<712226, 709826, 807622, 742397, 10619, 314551>>],
      \* the ice sheet: (72.0, -40.0)
       [airports |-> <<990396, 691799, 1227718, 986737, 509044, 723689, 598993,
                      629492, 895724, 1185913, 1036294, 471480, 772207,
                      547822, 1281848, 1259832, 1338294, 1325102>>,
        mines |-> <<1255290, 1251559, 1325466, 1272641, 702008, 986006>>],
      \* Thule: (76.53, -68.7)
       [airports |-> <<1498745, 1217777, 1916531, 157, 986300, 1628459,
                      1008875, 1527410, 1351317, 1761986, 107971, 810974,
                      1177724, 554212, 1953434, 1932080, 2027648, 2025109>>,
        mines |-> <<1930176, 1927812, 2025459, 1960398, 1221103, 1500311>>],
      \* north-east of Kvanefjeld, over 50 km from Tanbreez: (61.4, -45.7)
       [airports |-> <<434014, 668995, 30390, 1886821, 906063, 628720, 877966,
                      1452307, 572801, 219006, 1979952, 1083134, 728325,
                      1339938, 78347, 56925, 142175, 138602>>,
        mines |-> <<51802, 47916, 138946, 74055, 666015, 428449>>],
      \* east of Nalunaq, over 50 km from every project: (60.2, -43.5)
       [airports |-> <<612994, 835909, 149671, 2050886, 1065779, 678533,
                      1044273, 1500721, 750770, 386306, 2141923, 1242652,
                      902964, 1500428, 150990, 160534, 96056, 71897>>,
        mines |-> <<157680, 157134, 71883, 120741, 833818, 607380>>] >>

haversine_km(p, table, i) ==
    IF table = "locations" THEN Positions[p].airports[i]
    ELSE Positions[p].mines[i]

\* find_nearest_airport: nearest is 0 (None) while min_dist_km is inf.
RECURSIVE ScanLastWins(_, _)
ScanLastWins(p, n) ==
    IF n = 0 THEN [nearest |-> 0, min_dist_km |-> 0]
    ELSE LET prev == ScanLastWins(p, n - 1)
             dist_km == haversine_km(p, "locations", n)
         IN  IF prev.nearest = 0 \/ dist_km <= prev.min_dist_km
             THEN [nearest |-> n, min_dist_km |-> dist_km]
             ELSE prev

RECURSIVE Scan(_, _)
Scan(p, n) ==
    IF n = 0 THEN [nearest |-> 0, min_dist_km |-> 0]
    ELSE LET prev == Scan(p, n - 1)
             dist_km == haversine_km(p, "locations", n)
         IN  IF prev.nearest = 0 \/ dist_km < prev.min_dist_km
             THEN [nearest |-> n, min_dist_km |-> dist_km]
             ELSE prev

find_nearest_airport(p) ==
    LET found == Scan(p, Len(all_locations))
    IN  [icao |-> all_locations[found.nearest], dist_km |-> found.min_dist_km]

\* find_nearest_mine: the first project, in table order, within the
\* threshold; None is a project_id of "None".
NoMine == [project_id |-> "None", company |-> "None", dist_km |-> 0]

find_nearest_mine(p, threshold_km) ==
    LET within == { i \in 1..Len(MINING_PROJECTS) :
                      haversine_km(p, "projects", i) <= threshold_km * 1000 }
    IN  IF within = {} THEN NoMine
        ELSE LET i == CHOOSE j \in within : \A k \in within : j <= k
             IN  [project_id |-> MINING_PROJECTS[i].project_id,
                  company |-> MINING_PROJECTS[i].company,
                  dist_km |-> haversine_km(p, "projects", i)]

\* process_traffic, for one state vector at position p.
NoTraffic ==
    [classification |-> "None", nearest_airport_icao |-> "None",
     nearest_airport_km |-> 0, near_mine |-> "None",
     near_mine_company |-> "None", near_mine_km |-> 0]

process_traffic(st, p) ==
    LET nearest_apt == find_nearest_airport(p)
        nearest_mine == find_nearest_mine(p, MineThreshold)
    IN  [classification |->
            monitor_classify_aircraft(strip(OrEmpty(st.callsign)), st.icao24),
         nearest_airport_icao |-> nearest_apt.icao,
         nearest_airport_km |-> RoundKm(nearest_apt.dist_km),
         near_mine |-> nearest_mine.project_id,
         near_mine_company |-> nearest_mine.company,
         near_mine_km |-> RoundKm(nearest_mine.dist_km)]

(***************************************************************************)
(* Inputs: the state vectors a fetch may return.                           *)
(***************************************************************************)
HexUS == <<"a","1">>
HexEU == <<"4","b">>
HexOther == <<"e","4">>
CsPlain == <<"N","1">>
CsScheduled == <<"G","R","L","1">>
CsMilitary == <<"R","C","H","1">>

\* A complete vector (17 fields) with a position 5 km from the choke point.
Vector(hex, cs, og) ==
    [len |-> 17, pos |-> TRUE, icao24 |-> hex, callsign |-> cs,
     on_ground |-> og, altitude |-> Num(500), velocity |-> Num(10),
     dist |-> 5000]

Ok(states) == [status |-> "200", parsed |-> TRUE, states |-> states]

\* What the three fetches of one invocation return: a sequence of
\* sightings, each a state vector with the index in PollOrder of the choke
\* point it was fetched for, in polling order.
AtHub ==
    { <<1, v>> : v \in
        { Vector(HexUS, CsPlain, "True"),
          Vector(HexUS, <<>>, "True"),
          Vector(HexUS, CsPlain, "False"),
          Vector(HexUS, NoneStr, "None"),
          Vector(HexUS, CsScheduled, "True"),
          Vector(HexUS, CsMilitary, "True"),
          Vector(HexEU, <<>>, "True"),
          Vector(HexOther, <<>>, "True") } }

Elsewhere ==
    { <<2, Vector(HexUS, CsPlain, "True")>>,
      <<3, Vector(HexEU, <<>>, "True")>> }

Sightings == AtHub \cup Elsewhere

Pairs ==
    { << <<1, Vector(HexUS, CsScheduled, "True")>>,
         <<1, Vector(HexEU, <<>>, "True")>> >>,
      << <<1, Vector(HexUS, CsPlain, "True")>>,
         <<2, Vector(HexUS, CsPlain, "True")>> >> }

Batches == {<<>>} \cup { <<s>> : s \in Sightings } \cup Pairs

\* A burst of n vectors at the dominant hub, alternating two aircraft.
Burst(n) ==
    [i \in 1..n |-> <<1, IF i % 2 = 1 THEN Vector(HexUS, CsPlain, "False")
                         ELSE Vector(HexEU, <<>>, "True")>>]

CapBatches == { Burst(7), Burst(20) }

\* The responses that serve a batch: each choke point answers 200 with the
\* vectors sighted there.
At(batch, i) ==
    LET there == SelectSeq(batch, LAMBDA s : s[1] = i)
    IN  [j \in 1..Len(there) |-> there[j][2]]

Served(batch) == [i \in 1..Len(PollOrder) |-> <<Ok(At(batch, i))>>]

(***************************************************************************)
(* One invocation of main, split where it reads or writes a shared file.   *)
(***************************************************************************)
AllProcs == {1, 2}
Idle == \A p \in AllProcs : pc[p] = "idle"

Hexes == {HexUS, HexEU, HexOther}
Keys == { DwellKey(h, PollOrder[i]) : h \in Hexes, i \in 1..Len(PollOrder) }

\* for icao in ['BGBW', 'BGGH', 'BGSF']: states = fetch_airport_traffic(...)
FetchAll(responses) ==
    [i \in 1..Len(PollOrder) |->
        fetch_airport_traffic(PollOrder[i], responses[i])]

\* if states is None: continue; if not states: continue;
\* for state in states: all_records.append(process_aircraft(state, icao))
ProcessStates(states, icao, t) ==
    IF states.none THEN <<>>
    ELSE [j \in 1..Len(states.states) |->
             process_aircraft(states.states[j], icao, t)]

RECURSIVE ProcessFirst(_, _, _)
ProcessFirst(results, n, t) ==
    IF n = 0 THEN <<>>
    ELSE ProcessFirst(results, n - 1, t)
            \o ProcessStates(results[n], PollOrder[n], t)

ProcessAll(results, t) == ProcessFirst(results, Len(PollOrder), t)

Start ==
    /\ now = 0
    /\ dwell_file = <<>>
    /\ alerts_file = <<>>
    /\ pc = [p \in AllProcs |-> "idle"]
    /\ all_records = [p \in AllProcs |-> <<>>]
    /\ all_alerts = [p \in AllProcs |-> <<>>]
    /\ dwell_data = [p \in AllProcs |-> <<>>]
    /\ current_time = [p \in AllProcs |-> 0]
    /\ existing_alerts = [p \in AllProcs |-> <<>>]
    /\ finished = [p \in AllProcs |-> "None"]
    /\ runs = 0
    /\ ticks = 0
    /\ loaded = [p \in AllProcs |-> <<>>]
    /\ seen = [k \in Keys |-> <<>>]
    /\ missed = [k \in Keys |-> <<>>]
    /\ appended = <<>>
    /\ overlap = FALSE
    /\ fetched = [p \in AllProcs |-> <<>>]

Init ==
    /\ Start
    /\ in_state = Vector(<<>>, <<>>, "None")
    /\ in_icao = BGBW
    /\ out_class = Class(0, "None")
    /\ out_record = process_aircraft(in_state, in_icao, 0)
    /\ out_alert = NoAlert
    /\ in_pos = 1
    /\ out_traffic = NoTraffic

Pure == <<in_state, in_icao, in_pos, out_class, out_record, out_alert,
          out_traffic>>

\* The polling loop, save_records, and the start of update_dwell_tracking:
\* each choke point is fetched once, every state vector fetched is
\* processed, the dwell store is read and the clock taken.
Poll(p, responses) ==
    /\ pc[p] = "idle"
    /\ runs' = runs + 1
    /\ fetched' = [fetched EXCEPT ![p] = responses]
    /\ all_records' =
          [all_records EXCEPT ![p] = ProcessAll(FetchAll(responses), now)]
    /\ all_alerts' = [all_alerts EXCEPT ![p] = PriorityAlerts(all_records'[p])]
    /\ dwell_data' = [dwell_data EXCEPT ![p] = dwell_file]
    /\ loaded' = [loaded EXCEPT ![p] = dwell_file]
    /\ current_time' = [current_time EXCEPT ![p] = now]
    /\ finished' = [finished EXCEPT ![p] = "None"]
    /\ overlap' = (overlap \/ \E q \in AllProcs : pc[q] # "idle")
    /\ pc' = [pc EXCEPT ![p] = "tracking"]
    /\ UNCHANGED <<now, dwell_file, alerts_file, existing_alerts, ticks,
                   seen, missed, appended, Pure>>

\* The history variable seen, kept beside the program: an observation on
\* the ground of a priority 1 or 2 aircraft continues the stay of its key,
\* and a stay last observed 48 hours or more before an invocation is over
\* once that invocation has tracked.
Qualifying(records, k) ==
    SelectSeq(records,
              LAMBDA r : /\ r.on_ground = "True"
                         /\ r.priority \in {1, 2}
                         /\ r.icao24 \o <<"_">> \o r.airport_icao = k)

Observe(sn, records) ==
    [k \in Keys |->
        sn[k] \o [i \in 1..Len(Qualifying(records, k)) |->
                    Qualifying(records, k)[i].timestamp]]

\* The history variable missed: an invocation later than the start of a
\* stay that has no qualifying observation of its key is a gap of the
\* stay, of which the first is kept,
\* "airborne" when it observed the aircraft there not on the ground,
\* "absent" when it did not observe it there at all.
Gap(records, k, t) ==
    LET there == SelectSeq(records,
                    LAMBDA r : r.icao24 \o <<"_">> \o r.airport_icao = k)
    IN  [time |-> t,
         kind |-> IF there = <<>> THEN "absent"
                  ELSE IF \E i \in 1..Len(there) : there[i].on_ground = "False"
                       THEN "airborne" ELSE "other"]

Miss(ms, sn, records, t) ==
    [k \in Keys |->
        IF /\ sn[k] # <<>>
           /\ ms[k] = <<>>
           /\ t > Head(sn[k])
           /\ Qualifying(records, k) = <<>>
           /\ Gap(records, k, t).kind # "other"
        THEN <<Gap(records, k, t)>> ELSE ms[k]]

Forget(ms, sn) == [k \in Keys |-> IF sn[k] = <<>> THEN <<>> ELSE ms[k]]

Expire(sn, t) ==
    [k \in Keys |->
        IF sn[k] # <<>> /\ t - sn[k][Len(sn[k])] >= 48 * 3600
        THEN <<>> ELSE sn[k]]

\* The rest of update_dwell_tracking, on the store dd as read: the
\* records are applied, the dwell alerts computed from every entry, then
\* the old entries cleaned and the store rewritten.
Tracked(dd, records) == WithDwellHours(ApplyRecords(dd, records))

update_evicting_first(dd, records, current) ==
    LET tracked == Tracked(CleanOld(dd, current), records)
    IN  [tracked |-> tracked, alerts |-> DwellAlerts(tracked),
         store |-> tracked]

\* A stay that ends with the first invocation that does not see the
\* aircraft on the ground there.
update_ending_stay_at_gap(dd, records, current) ==
    LET kept == SelectSeq(dd, LAMBDA e : Qualifying(records, e.key) # <<>>)
        tracked == Tracked(kept, records)
    IN  [tracked |-> tracked, alerts |-> DwellAlerts(tracked),
         store |-> CleanOld(tracked, current)]

update_alerting_after_cleaning(dd, records, current) ==
    LET tracked == Tracked(dd, records)
    IN  [tracked |-> tracked,
         alerts |-> DwellAlerts(CleanOld(tracked, current)),
         store |-> CleanOld(tracked, current)]

update_dwell_tracking(dd, records, current) ==
    LET tracked == Tracked(dd, records)
    IN  [tracked |-> tracked, alerts |-> DwellAlerts(tracked),
         store |-> CleanOld(tracked, current)]

TrackDwell(p) ==
    /\ pc[p] = "tracking"
    /\ ~Unparsed(ApplyRecords(dwell_data[p], all_records[p]))
    /\ LET u == update_dwell_tracking(dwell_data[p], all_records[p],
                                      current_time[p])
       IN  /\ dwell_data' = [dwell_data EXCEPT ![p] = u.tracked]
           /\ dwell_file' = u.store
           /\ all_alerts' = [all_alerts EXCEPT ![p] = @ \o u.alerts]
    /\ seen' = Expire(Observe(seen, all_records[p]), current_time[p])
    /\ missed' = Forget(Miss(missed, seen, all_records[p], current_time[p]),
                        seen')
    /\ pc' = [pc EXCEPT ![p] = "alerting"]
    /\ UNCHANGED <<now, alerts_file, all_records, current_time,
                   existing_alerts, finished, runs, ticks, loaded, appended,
                   overlap, fetched, Pure>>

\* strptime raises in the loop over the entries, after the records were
\* applied to the dictionary in memory and before anything is written:
\* the exception leaves update_dwell_tracking and main.
Raise(p) ==
    /\ pc[p] = "tracking"
    /\ Unparsed(ApplyRecords(dwell_data[p], all_records[p]))
    /\ pc' = [pc EXCEPT ![p] = "raised"]
    /\ finished' = [finished EXCEPT ![p] = "ValueError"]
    /\ UNCHANGED <<now, dwell_file, alerts_file, all_records, all_alerts,
                   dwell_data, current_time, existing_alerts, runs, ticks,
                   loaded, seen, missed, appended, overlap, fetched, Pure>>

\* The process ends, and with it its local variables.
Exit(p, outcome) ==
    /\ pc' = [pc EXCEPT ![p] = "idle"]
    /\ finished' = [finished EXCEPT ![p] = outcome]
    /\ all_records' = [all_records EXCEPT ![p] = <<>>]
    /\ all_alerts' = [all_alerts EXCEPT ![p] = <<>>]
    /\ dwell_data' = [dwell_data EXCEPT ![p] = <<>>]
    /\ existing_alerts' = [existing_alerts EXCEPT ![p] = <<>>]
    /\ loaded' = [loaded EXCEPT ![p] = <<>>]
    /\ fetched' = [fetched EXCEPT ![p] = <<>>]

\* if all_alerts: ... json.load(ALERTS_FILE); without alerts main goes on
\* to the map and ends.
LoadAlerts(p) ==
    /\ pc[p] = "alerting"
    /\ IF all_alerts[p] = <<>>
       THEN Exit(p, "Done")
       ELSE /\ pc' = [pc EXCEPT ![p] = "saving"]
            /\ existing_alerts' = [existing_alerts EXCEPT ![p] = alerts_file]
            /\ UNCHANGED <<finished, all_records, all_alerts, dwell_data,
                           loaded, fetched>>
    /\ UNCHANGED <<now, dwell_file, alerts_file, current_time, runs, ticks,
                   seen, missed, appended, overlap, Pure>>

\* The alerts are appended, the list cut and written, the alerts printed.
StoreAlerts(p) ==
    /\ pc[p] = "saving"
    /\ alerts_file' = SaveAlerts(existing_alerts[p], all_alerts[p])
    /\ appended' = appended \o CleanAll(all_alerts[p])
    /\ Exit(p, ReportOutcome(all_alerts[p]))
    /\ UNCHANGED <<now, dwell_file, current_time, runs, ticks, seen, missed,
                   overlap, Pure>>

\* The traceback is printed and the process ends.
Die(p) ==
    /\ pc[p] = "raised"
    /\ Exit(p, "ValueError")
    /\ UNCHANGED <<now, dwell_file, alerts_file, current_time, runs, ticks,
                   seen, missed, appended, overlap, Pure>>

\* Time passes between invocations: the schedule fires after d seconds.
Tick(d) ==
    /\ Idle
    /\ ticks < runs
    /\ ticks' = ticks + 1
    /\ now' = now + d
    /\ UNCHANGED <<dwell_file, alerts_file, pc, all_records, all_alerts,
                   dwell_data, current_time, existing_alerts, finished,
                   runs, loaded, seen, missed, appended, overlap, fetched, Pure>>

Hours(h) == h * SecondsPerHour
Deltas == { Hours(2), Hours(3), Hours(RetentionHours) }

Run(p) == TrackDwell(p) \/ LoadAlerts(p) \/ StoreAlerts(p)

\* Invocations one at a time.
Next ==
    \/ (runs < MaxRuns /\ \E b \in Batches : Poll(1, Served(b)))
    \/ Run(1)
    \/ (runs < MaxRuns /\ \E d \in Deltas : Tick(d))

Spec == Init /\ [][Next]_vars

\* Invocations one at a time, each fetching a burst of aircraft.
NextCap ==
    \/ (runs < MaxCapRuns /\ \E b \in CapBatches : Poll(1, Served(b)))
    \/ Run(1)
    \/ (runs < MaxCapRuns /\ Tick(Hours(3)))

SpecCap == Init /\ [][NextCap]_vars

\* Two processes: nothing keeps an invocation from starting while another
\* is running.
ConcBatches ==
    { <<>>,
      << <<1, Vector(HexUS, CsPlain, "True")>> >>,
      << <<1, Vector(HexEU, <<>>, "True")>> >> }

NextConc ==
    \/ \E p \in AllProcs :
          \/ (runs < MaxConcRuns /\ \E b \in ConcBatches : Poll(p, Served(b)))
          \/ Run(p)
    \/ (runs < MaxConcRuns /\ Tick(Hours(2)))

SpecConc == Init /\ [][NextConc]_vars

\* Between invocations something other than the program damages one
\* timestamp of the dwell store (a hand edit, a truncated write).
Corrupt ==
    /\ Idle
    /\ ~Unparsed(dwell_file)
    /\ \E i \in 1..Len(dwell_file) :
          \/ dwell_file' = [dwell_file EXCEPT ![i].first_seen = Unparsable]
          \/ dwell_file' = [dwell_file EXCEPT ![i].last_seen = Unparsable]
    /\ UNCHANGED <<now, alerts_file, pc, all_records, all_alerts, dwell_data,
                   current_time, existing_alerts, finished, runs, ticks,
                   loaded, seen, missed, appended, overlap, fetched, Pure>>

CorruptBatches ==
    { <<>>,
      << <<1, Vector(HexUS, CsPlain, "True")>> >>,
      << <<1, Vector(HexUS, CsPlain, "False")>> >>,
      << <<1, Vector(HexEU, <<>>, "True")>> >>,
      << <<1, Vector(HexUS, CsPlain, "True")>>,
         <<1, Vector(HexEU, <<>>, "True")>> >> }

NextCorrupt ==
    \/ (runs < MaxCorruptRuns
          /\ \E b \in CorruptBatches : Poll(1, Served(b)))
    \/ Run(1)
    \/ Raise(1)
    \/ Die(1)
    \/ Corrupt
    \/ (runs < MaxCorruptRuns /\ Tick(Hours(2)))

SpecCorrupt == Init /\ [][NextCorrupt]_vars

\* Invocations whose fetches may fail: what the network answers to the
\* requests for each choke point.
Failure(status) == [status |-> status, parsed |-> FALSE, states |-> <<>>]
Malformed == [status |-> "200", parsed |-> FALSE, states |-> <<>>]

Short == [Vector(HexUS, CsPlain, "True") EXCEPT !.len = 7]
NoPosition == [Vector(HexEU, <<>>, "True") EXCEPT !.pos = FALSE]
Far == [Vector(HexUS, CsPlain, "True") EXCEPT !.dist = 45000]
Bare == [Vector(HexEU, <<>>, "True") EXCEPT !.len = 8]

AnswersBGBW ==
    { <<Failure("exception"), Ok(<<Vector(HexUS, CsPlain, "True")>>)>>,
      <<Failure("429")>>,
      <<Ok(<<Vector(HexEU, <<>>, "True")>>)>>,
      <<Ok(<<Short, Far, Vector(HexUS, CsPlain, "True")>>)>>,
      <<Ok(<<>>)>> }

AnswersBGGH ==
    { <<Failure("500"), Ok(<<Vector(HexUS, CsPlain, "True")>>)>>,
      <<Malformed>>,
      <<Ok(<<Far, Vector(HexUS, CsPlain, "True")>>)>>,
      <<Ok(<<>>)>> }

AnswersBGSF ==
    { <<Failure("exception")>>,
      <<Ok(<<Bare>>)>>,
      <<Ok(<<NoPosition, Vector(HexEU, <<>>, "True")>>)>> }

Responses ==
    { <<a, b, c>> : a \in AnswersBGBW, b \in AnswersBGGH, c \in AnswersBGSF }

NextFetch ==
    \/ (runs < MaxFetchRuns /\ \E r \in Responses : Poll(1, r))
    \/ Run(1)
    \/ (runs < MaxFetchRuns /\ Tick(Hours(RetentionHours)))

SpecFetch == Init /\ [][NextFetch]_vars

\* Invocations at uneven intervals: a quarter or a third of an hour, the
\* hours of an extended dwell, and an hour more than the retention.
Intervals ==
    { SecondsPerHour \div 4, SecondsPerHour \div 3, Hours(DwellAlertHours),
      Hours(RetentionHours + 1) }

IntervalBatches ==
    { <<>>,
      << <<1, Vector(HexUS, CsPlain, "True")>> >>,
      << <<2, Vector(HexUS, CsPlain, "True")>> >>,
      << <<1, Vector(HexUS, CsPlain, "True")>>,
         <<1, Vector(HexEU, <<>>, "True")>>,
         <<1, Vector(HexUS, <<>>, "True")>> >> }

NextIntervals ==
    \/ (runs < MaxIntervalRuns
          /\ \E b \in IntervalBatches : Poll(1, Served(b)))
    \/ Run(1)
    \/ (runs < MaxIntervalRuns /\ \E d \in Intervals : Tick(d))

SpecIntervals == Init /\ [][NextIntervals]_vars

(***************************************************************************)
(* The pure functions, applied once to an input drawn from the sets below. *)
(***************************************************************************)
PureCallsigns ==
    { NoneStr, <<>>, <<" ", " ">>,
      <<" ", "g", "r", "l", "1", "2", " ">>,
      <<"I", "C", "E", "1">>, <<"F", "L", "I">>, <<"S", "a", "s", "9">>,
      <<"\t", "D", "A", "T", "1">>, <<"X", "G", "R", "L">>, <<"G", "R">>,
      <<"r", "c", "h", "1">>, <<"R", "R", "R">>,
      <<"R", "E", "A", "C", "H", "1">>, <<"C", "N", "V">>,
      <<"D", "U", "K", "E">>, <<"D", "A", "F">>, <<"D", "N", "K", "2">>,
      <<"D", "A", "N", "S", "U", "P">>, <<"D", "A">>,
      <<"C", "F", "C">>, <<" ", "c", "f", "f">>,
      <<"C", "A", "N", "F", "O", "R", "C", "E">>,
      <<"N", "1", "2", "3", "A", "B">>, <<"G", " ", "R", "L">> }

PureHexes ==
    { NoneStr, <<>>, <<"a", "1", "2", "3", "4", "5">>, <<"A", "1">>,
      <<"c", "0", "1">>, <<"c", "1">>, <<"C", "2">>, <<"c", "3", "f">>,
      <<"c", "4">>, <<"c">>, <<"4", "b">>, <<"t", "f", "1">>, <<"T", "F">>,
      <<"e", "4">>, <<"b", "a">>, <<" ", "a", "1">> }

PureStates ==
    { Vector(h, c, "True") : h \in PureHexes, c \in PureCallsigns }

InitPure ==
    /\ Start
    /\ in_state \in PureStates
    /\ in_icao \in {BGBW, BGGH, BGSF}
    /\ out_class = Class(0, "None")
    /\ out_record = process_aircraft(Vector(<<>>, <<>>, "None"), BGBW, 0)
    /\ out_alert = NoAlert
    /\ in_pos = 1
    /\ out_traffic = NoTraffic

Apply ==
    /\ runs = 0
    /\ runs' = 1
    /\ out_class' = classify_aircraft(in_state.callsign, in_state.icao24)
    /\ out_record' = process_aircraft(in_state, in_icao, now)
    /\ out_alert' = generate_priority_alert(out_record')
    /\ out_traffic' = process_traffic(in_state, in_pos)
    /\ UNCHANGED <<now, dwell_file, alerts_file, pc, all_records,
                   all_alerts, dwell_data, current_time, existing_alerts,
                   finished, ticks, loaded, seen, missed, appended, overlap, fetched,
                   in_state, in_icao, in_pos>>

SpecPure == InitPure /\ [][Apply]_vars

\* The classifier on the registrations the data model has: lowercase
\* hexadecimal strings, here every string of up to two digits and every
\* two-digit block of six-digit addresses, with a callsign of each kind.
HexDigits ==
    {"0", "1", "2", "3", "4", "5", "6", "7", "8", "9",
     "a", "b", "c", "d", "e", "f"}

HexStrings ==
    {<<>>} \cup { <<a>> : a \in HexDigits }
           \cup { <<a, b>> : a, b \in HexDigits }
           \cup { <<a, b, "1", "2", "3", "4">> : a, b \in HexDigits }

HexCallsigns ==
    { <<>>, <<"G", "R", "L", "1">>, <<"R", "C", "H", "1">>,
      <<"D", "A", "F">>, <<"C", "F", "C">>, <<"N", "1", "2", "3", "A", "B">> }

HexStates ==
    { Vector(h, c, "True") : h \in HexStrings, c \in HexCallsigns }

InitHex ==
    /\ Start
    /\ in_state \in HexStates
    /\ in_icao = BGBW
    /\ out_class = Class(0, "None")
    /\ out_record = process_aircraft(Vector(<<>>, <<>>, "None"), BGBW, 0)
    /\ out_alert = NoAlert
    /\ in_pos = 1
    /\ out_traffic = NoTraffic

SpecHex == InitHex /\ [][Apply]_vars

\* One invocation on empty stores whose fetch of BGBW returns one vector.
ArrivalStates ==
    { [len |-> 17, pos |-> TRUE,
       icao24 |-> <<"a", "1", "2", "3", "4", "5">>,
       callsign |-> <<"N", "1", "2", "3", "A", "B">>,
       on_ground |-> og, altitude |-> alt, velocity |-> vel, dist |-> d] :
        og \in {"True", "False", "None"},
        alt \in {Absent, Num(500), Num(2999), Num(3000), Num(5000)},
        vel \in {Absent, Num(10), Num(99), Num(100)},
        d \in {4608, 19999, 20000, 45000} }

InitArrival ==
    /\ Start
    /\ in_state \in ArrivalStates
    /\ in_icao = BGBW
    /\ in_pos = 1
    /\ out_class = Class(0, "None")
    /\ out_record = process_aircraft(Vector(<<>>, <<>>, "None"), BGBW, 0)
    /\ out_alert = NoAlert
    /\ out_traffic = NoTraffic

NextArrival ==
    \/ (runs = 0
          /\ Poll(1, << <<Ok(<<in_state>>)>>, <<Ok(<<>>)>>, <<Ok(<<>>)>> >>))
    \/ Run(1)

SpecArrival == InitArrival /\ [][NextArrival]_vars

\* The lookups of the second pipeline, applied at each position of the
\* table to a few aircraft.
GeoStates ==
    { Vector(<<"a", "1", "2", "3", "4", "5">>,
             <<"N", "1", "2", "3", "A", "B">>, "True"),
      Vector(<<"4", "b">>, <<>>, "False"),
      Vector(<<"c", "0", "1">>, NoneStr, "None"),
      Vector(<<"e", "4">>, <<"G", "R", "L", "1">>, "True"),
      Vector(<<"a", "1">>, <<"R", "C", "H", "1">>, "False") }

InitGeo ==
    /\ Start
    /\ in_state \in GeoStates
    /\ in_icao = BGBW
    /\ in_pos \in 1..Len(Positions)
    /\ out_class = Class(0, "None")
    /\ out_record = process_aircraft(Vector(<<>>, <<>>, "None"), BGBW, 0)
    /\ out_alert = NoAlert
    /\ out_traffic = NoTraffic

SpecGeo == InitGeo /\ [][Apply]_vars

(***************************************************************************)
(* The claims.  In a state where After(p) holds, invocation p has just     *)
(* rewritten the dwell store: loaded[p] is the store it read,              *)
(* all_records[p] its observations, dwell_data[p] the store with the       *)
(* observations applied, current_time[p] its time T.                       *)
(***************************************************************************)
After(p) == pc[p] \in {"alerting", "saving"}

Entries(dd) == { dd[i] : i \in 1..Len(dd) }
KeysOf(dd) == { e.key : e \in Entries(dd) }
Records(p) == { all_records[p][i] : i \in 1..Len(all_records[p]) }
KeyOfRecord(r) == r.icao24 \o <<"_">> \o r.airport_icao
QualifyingObservation(r) == r.on_ground = "True" /\ r.priority <= 2
Observed(p, key) ==
    \E r \in Records(p) : QualifyingObservation(r) /\ KeyOfRecord(r) = key
Stale(e, t) == t - e.last_seen > 48 * 3600

\* C1 (as claimed): a record last seen more than 48 hours before the
\* invocation is deleted before the observations are applied, so a
\* qualifying observation of its key leaves a fresh record with
\* first-seen = last-seen = T.
C1_FreshRecordAfter48h ==
    After(1) =>
        \A e \in Entries(loaded[1]) :
            (Stale(e, current_time[1]) /\ Observed(1, e.key)) =>
                \E f \in Entries(dwell_file) :
                    /\ f.key = e.key
                    /\ f.first_seen = current_time[1]
                    /\ f.last_seen = current_time[1]

\* C1 (amended): the old entries are cleaned after the observations are
\* applied.  A record last seen more than 48 hours before the invocation
\* is extended by a qualifying observation of its key (first-seen kept,
\* last-seen = T) and stays in the store; without such an observation it
\* is absent from the store the invocation writes.
C1_StaleRecordExtendedOrCleaned ==
    After(1) =>
        \A e \in Entries(loaded[1]) :
            Stale(e, current_time[1]) =>
                IF Observed(1, e.key)
                THEN \E f \in Entries(dwell_file) :
                        /\ f.key = e.key
                        /\ f.first_seen = e.first_seen
                        /\ f.last_seen = current_time[1]
                ELSE e.key \notin KeysOf(dwell_file)

C1_Witness ==
    /\ After(1)
    /\ \E e \in Entries(loaded[1]) :
          /\ Stale(e, current_time[1])
          /\ Observed(1, e.key)
          /\ \E f \in Entries(dwell_file) :
                f.key = e.key /\ f.first_seen = e.first_seen
                /\ f.last_seen = current_time[1]

\* C2: while a key is never evicted, its record's first-seen is the
\* timestamp of the first qualifying observation, its last-seen that of
\* the most recent one, and the stored dwell is last-seen minus first-seen
\* (to the stored tenth of an hour).
Last(s) == s[Len(s)]

C2_FirstAndLastSeen ==
    \A e \in Entries(dwell_file) :
        /\ seen[e.key] # <<>>
        /\ e.first_seen = Head(seen[e.key])
        /\ e.last_seen = Last(seen[e.key])
        /\ e.dwell_tenths * 360 - (e.last_seen - e.first_seen) \in -180..180

C2_Witness ==
    \E e \in Entries(dwell_file) :
        /\ seen[e.key] = <<0, 2 * 3600, 5 * 3600>>
        /\ e.first_seen = 0
        /\ e.last_seen = 5 * 3600
        /\ e.dwell_tenths = 50

\* C4: every dwell record has first-seen <= last-seen (the clock never
\* goes back).
C4_FirstSeenNotAfterLastSeen ==
    \A p \in AllProcs :
        \A e \in Entries(dwell_file) \cup Entries(dwell_data[p]) :
            e.first_seen <= e.last_seen

C4_Witness ==
    \E e \in Entries(dwell_file) : e.first_seen < e.last_seen

\* C5: a record is created only by an observation on the ground with
\* priority <= 2, with first-seen = last-seen = its timestamp; a key with
\* no such observation in the invocation keeps its record unchanged and
\* gets none.
C5_OnlyQualifyingObservationsTrack ==
    After(1) =>
        /\ \A f \in Entries(dwell_data[1]) :
              f.key \notin KeysOf(loaded[1]) =>
                  \E r \in Records(1) :
                      /\ r.on_ground = "True"
                      /\ r.priority <= 2
                      /\ KeyOfRecord(r) = f.key
                      /\ f.first_seen = r.timestamp
                      /\ f.last_seen = r.timestamp
        /\ \A e \in Entries(loaded[1]) :
              ~Observed(1, e.key) => e \in Entries(dwell_data[1])
        /\ \A r \in Records(1) :
              (r.on_ground # "True" \/ r.priority \in {3, 4, 5}) =>
                  (~Observed(1, KeyOfRecord(r)) =>
                      (KeyOfRecord(r) \in KeysOf(dwell_data[1])
                          <=> KeyOfRecord(r) \in KeysOf(loaded[1])))

C5_Witness ==
    /\ After(1)
    /\ \E r \in Records(1) :
          /\ r.on_ground = "True" /\ r.priority = 5
          /\ KeyOfRecord(r) \in KeysOf(loaded[1])
    /\ \E f \in Entries(dwell_data[1]) : f.key \notin KeysOf(loaded[1])

\* C6: after an invocation at time T, every record of the persisted dwell
\* store has last-seen later than T - 48 hours.
C6_StoreWithinRetention ==
    (runs > 0 /\ pc[1] # "tracking") =>
        \A e \in Entries(dwell_file) :
            e.last_seen > current_time[1] - 48 * 3600

C6_Witness ==
    /\ After(1)
    /\ \E e \in Entries(loaded[1]) :
          e.key \notin KeysOf(dwell_file) /\ ~Observed(1, e.key)

\* C7: in every invocation each dwell record at BGBW with last-seen minus
\* first-seen >= 4 hours yields exactly one extended-dwell alert, tagged
\* HIGH, also when the invocation did not observe it again; any other
\* record yields none.
DwellAlertsOf(p) ==
    { i \in 1..Len(all_alerts[p]) : all_alerts[p][i].type = "EXTENDED_DWELL" }

AlertsFor(p, e) ==
    { i \in DwellAlertsOf(p) :
        /\ all_alerts[p][i].icao24 = e.icao24
        /\ all_alerts[p][i].airport = e.airport_icao
        /\ all_alerts[p][i].first_seen = e.first_seen
        /\ all_alerts[p][i].last_seen = e.last_seen }

C7_ExtendedDwellAlerts ==
    After(1) =>
        /\ \A e \in Entries(dwell_data[1]) :
              Cardinality(AlertsFor(1, e)) =
                  IF e.airport_icao = <<"B","G","B","W">>
                     /\ e.last_seen - e.first_seen >= 4 * 3600
                  THEN 1 ELSE 0
        /\ \A i \in DwellAlertsOf(1) :
              /\ all_alerts[1][i].priority = "HIGH"
              /\ \E e \in Entries(dwell_data[1]) : i \in AlertsFor(1, e)

C7_Witness ==
    /\ After(1)
    /\ \E e \in Entries(dwell_data[1]) :
          /\ AlertsFor(1, e) # {}
          /\ ~Observed(1, e.key)
          /\ e.last_seen < current_time[1]

\* C3: the persisted alert list is the last (up to) 100 alerts ever
\* appended, in the order they were appended.
C3_LastHundredAlerts ==
    /\ Len(alerts_file) <= 100
    /\ alerts_file =
          IF Len(appended) <= 100 THEN appended
          ELSE [i \in 1..100 |-> appended[Len(appended) - 100 + i]]

C3_Witness ==
    /\ Len(appended) > 100
    /\ Len(alerts_file) = 100
    /\ alerts_file[100] = appended[Len(appended)]
    /\ alerts_file[1] # appended[1]

\* C8: generate_priority_alert gives CRITICAL for priority 1 at BGBW, HIGH
\* for priority 1 elsewhere, MEDIUM for priority 2 at BGBW, and no alert
\* for anything else.
AtRedHub == in_icao = <<"B","G","B","W">>

C8_PriorityAlertRules ==
    runs = 1 =>
        /\ out_record.priority \in 1..5
        /\ (out_record.priority = 1 /\ AtRedHub)
              => out_alert.level = "CRITICAL"
        /\ (out_record.priority = 1 /\ ~AtRedHub)
              => out_alert.level = "HIGH"
        /\ (out_record.priority = 2 /\ AtRedHub)
              => out_alert.level = "MEDIUM"
        /\ (out_record.priority = 2 /\ ~AtRedHub) => out_alert = NoAlert
        /\ out_record.priority \in {3, 4, 5} => out_alert = NoAlert
        /\ out_alert # NoAlert =>
              /\ out_alert.timestamp = out_record.timestamp
              /\ out_alert.airport = in_icao

C8_Witness ==
    /\ runs = 1
    /\ out_record.priority = 1 /\ AtRedHub
    /\ out_alert.level = "CRITICAL"

\* C9: classify_aircraft gives the result of the first rule that matches,
\* in the order scheduled prefix, military pattern, high-value registration
\* block, secondary block, unknown: whatever the case of the letters and
\* the blanks around the callsign, and whatever the registration-hex of a
\* scheduled or military callsign.
Blank(c) == c = " " \/ c = "\t"
SameLetter(c, d) == ToUpper(c) = ToUpper(d)

\* raw, without the blanks before it, begins with prefix.
Begins(raw, prefix) ==
    /\ raw # NoneStr
    /\ \E k \in 1..Len(raw) :
          /\ \A j \in 1..(k - 1) : Blank(raw[j])
          /\ ~Blank(raw[k])
          /\ k + Len(prefix) - 1 <= Len(raw)
          /\ \A j \in 1..Len(prefix) : SameLetter(raw[k + j - 1], prefix[j])

BeginsAny(raw, prefixes) == \E q \in prefixes : Begins(raw, q)

HexBegins(raw, prefix) ==
    /\ raw # NoneStr
    /\ Len(raw) >= Len(prefix)
    /\ \A j \in 1..Len(prefix) : SameLetter(raw[j], prefix[j])

ScheduledPrefixes ==
    { <<"G","R","L">>, <<"I","C","E">>, <<"F","L","I">>, <<"S","A","S">>,
      <<"D","A","T">> }
UsPatterns ==
    { <<"R","C","H">>, <<"R","R","R">>, <<"R","E","A","C","H">>,
      <<"C","N","V">>, <<"D","U","K","E">> }
DkPatterns == { <<"D","A","F">>, <<"D","N","K">>, <<"D","A","N","S","U","P">> }
CaPatterns ==
    { <<"C","F","C">>, <<"C","F","F">>, <<"C","A","N","F","O","R","C","E">> }

FirstMatchingRule(cs, hex) ==
    IF BeginsAny(cs, ScheduledPrefixes) THEN <<5, "scheduled">>
    ELSE IF BeginsAny(cs, UsPatterns) THEN <<4, "military_us">>
    ELSE IF BeginsAny(cs, DkPatterns) THEN <<4, "military_dk">>
    ELSE IF BeginsAny(cs, CaPatterns) THEN <<4, "military_ca">>
    ELSE IF HexBegins(hex, <<"a">>) THEN <<1, "private_us">>
    ELSE IF \E d \in {"0", "1", "2", "3"} : HexBegins(hex, <<"c", d>>)
      THEN <<1, "private_ca">>
    ELSE IF HexBegins(hex, <<"4">>) THEN <<2, "private_eu">>
    ELSE IF HexBegins(hex, <<"t", "f">>) THEN <<2, "private_is">>
    ELSE <<3, "unknown">>

C9_FirstMatchingRuleWins ==
    runs = 1 =>
        /\ <<out_class.priority, out_class.classification>>
              = FirstMatchingRule(in_state.callsign, in_state.icao24)
        /\ <<out_record.priority, out_record.classification>>
              = FirstMatchingRule(in_state.callsign, in_state.icao24)

C9_Witness ==
    /\ runs = 1
    /\ in_state.callsign = <<" ", "g", "r", "l", "1", "2", " ">>
    /\ in_state.icao24 = <<"a", "1", "2", "3", "4", "5">>
    /\ out_class = [priority |-> 5, classification |-> "scheduled"]

\* C10: invocations that run one after the other lose nothing: the dwell
\* store holds every stay as observed and the alert list every alert
\* appended.  Two overlapping invocations can end with a dwell update of
\* one of them and an alert of one of them missing (C10_Witness).
StoreHoldsEveryStay ==
    /\ KeysOf(dwell_file) = { k \in Keys : seen[k] # <<>> }
    /\ \A e \in Entries(dwell_file) :
          /\ e.first_seen = Head(seen[e.key])
          /\ e.last_seen = Last(seen[e.key])

ListHoldsEveryAlert ==
    /\ Len(appended) <= 100
    /\ alerts_file = appended

C10_SerialRunsLoseNothing ==
    (Idle /\ ~overlap) => (StoreHoldsEveryStay /\ ListHoldsEveryAlert)

C10_Witness ==
    /\ Idle
    /\ overlap
    /\ \E k \in Keys :
          /\ seen[k] # <<>>
          /\ \A e \in Entries(dwell_file) :
                e.key = k => e.last_seen < Last(seen[k])
    /\ \E i \in 1..Len(appended) :
          \A j \in 1..Len(alerts_file) : alerts_file[j] # appended[i]

\* C11: every invocation runs to completion, whatever alerts it produced:
\* it persists and reports them, generates the map and reaches 'Done'.
C11_EveryInvocationReachesDone ==
    (Idle /\ runs > 0) => finished[1] = "Done"

\* C12 (as claimed): an invocation that read a dwell record with an
\* unparsable first-seen or last-seen aborts, whatever it observed: the
\* dwell store and the alert list stay as they were.
Garbled(e) == e.first_seen = -2 \/ e.last_seen = -2

AbortsUnwritten ==
    /\ pc'[1] \in {"raised", "idle"}
    /\ finished'[1] = "ValueError"
    /\ dwell_file' = dwell_file
    /\ alerts_file' = alerts_file

C12_AnyCorruptTimestampAborts ==
    [][ /\ (pc[1] = "tracking" /\ \E e \in Entries(loaded[1]) : Garbled(e))
            => (pc'[1] = "raised" /\ AbortsUnwritten)
        /\ pc[1] = "raised" => AbortsUnwritten ]_vars

\* C12 (amended): the invocation aborts if a record it read has an
\* unparsable first-seen, or an unparsable last-seen and no qualifying
\* observation of its key in the batch (such an observation overwrites
\* the last-seen before it is parsed).
Unreconcilable(p) ==
    \E e \in Entries(loaded[p]) :
        \/ e.first_seen = -2
        \/ (e.last_seen = -2 /\ ~Observed(p, e.key))

C12_UnreconcilableStoreAborts ==
    [][ /\ (pc[1] = "tracking" /\ Unreconcilable(1))
            => (pc'[1] = "raised" /\ AbortsUnwritten)
        /\ pc[1] = "raised" => AbortsUnwritten ]_vars

C12_Witness ==
    /\ pc[1] = "raised"
    /\ Unreconcilable(1)
    /\ \E r \in Records(1) : QualifyingObservation(r)
    /\ all_alerts[1] # <<>>
    /\ dwell_file = loaded[1]
    /\ \A i \in 1..Len(all_alerts[1]) :
          \A j \in 1..Len(alerts_file) :
              alerts_file[j].timestamp # all_alerts[1][i].timestamp

\* C13: a failed fetch of one choke point (an exception, a 429, another
\* status, a payload that does not parse) is skipped: it contributes no
\* record, it is not asked again, the other choke points contribute the
\* vectors they returned, dwell tracking and eviction run, and the
\* invocation completes.
Failed(answer) == answer.status # "200" \/ ~answer.parsed

SomeFailed(p) ==
    /\ fetched[p] # <<>>
    /\ \E i \in 1..3 : Failed(fetched[p][i][1])

Usable(st, i) ==
    st.len >= 8 /\ st.pos /\ st.dist <= <<50, 40, 40>>[i] * 1000

Contribution(p, i) ==
    IF Failed(fetched[p][i][1]) THEN <<>>
    ELSE SelectSeq(fetched[p][i][1].states, LAMBDA st : Usable(st, i))

RecordsAt(p, i) ==
    SelectSeq(all_records[p],
              LAMBDA r : r.airport_icao = <<BGBW, BGGH, BGSF>>[i])

C13_FailedSourceIsSkipped ==
    (pc[1] # "idle" /\ SomeFailed(1)) =>
        /\ all_records[1] = RecordsAt(1, 1) \o RecordsAt(1, 2) \o RecordsAt(1, 3)
        /\ \A i \in 1..3 :
              /\ Len(RecordsAt(1, i)) = Len(Contribution(1, i))
              /\ \A j \in 1..Len(RecordsAt(1, i)) :
                    RecordsAt(1, i)[j].icao24 = Contribution(1, i)[j].icao24
        /\ After(1) =>
              /\ \A e \in Entries(dwell_file) :
                    e.last_seen > current_time[1] - 48 * 3600
              /\ \A r \in Records(1) :
                    QualifyingObservation(r) =>
                        KeyOfRecord(r) \in KeysOf(dwell_file)

C13_TransportFailureNotFatal ==
    [][ /\ C13_FailedSourceIsSkipped
        /\ (pc[1] # "idle" /\ SomeFailed(1) /\ pc'[1] = "idle")
              => finished'[1] = "Done" ]_vars

\* C14: find_nearest_mine gives, when some mining project lies within
\* 50 km, a project at the least distance of all projects, with that
\* distance and its company; and nothing exactly when none lies within
\* 50 km.
Projects ==
    <<"tanbreez", "kvanefjeld", "nalunaq", "amitsoq", "white_mountain",
      "west_greenland_hub">>
Companies ==
    <<"Critical Metals Corp", "Energy Transition Minerals", "Amaroq Minerals",
      "GreenRoc Mining", "Lumina Sustainable Materials", "Amaroq Minerals">>

ToProject(i) == Positions[in_pos].mines[i]

C14_NearestMineWithinThreshold ==
    runs = 1 =>
        IF \A i \in 1..6 : ToProject(i) > 50 * 1000
        THEN out_traffic.near_mine = "None"
        ELSE \E i \in 1..6 :
                /\ \A k \in 1..6 : ToProject(i) <= ToProject(k)
                /\ out_traffic.near_mine = Projects[i]
                /\ out_traffic.near_mine_company = Companies[i]
                /\ out_traffic.near_mine_km * 100 - ToProject(i) \in -50..50

\* C15: find_nearest_airport gives a point at the least distance of all
\* airports and heliports, and of several at that distance the first in
\* registration order (the airports in table order, then the heliports).
Registered ==
    <<"BGGH", "BGSF", "BGBW", "BGTL", "BGJN", "BGKK", "BGAA", "BGCO", "BGMQ",
      "BGPT", "BGQQ", "BGUQ", "BGSS", "BGUK", "BGJH", "BGNS", "BGNN", "BGNL">>

ToPoint(i) == Positions[in_pos].airports[i]

C15_NearestAirportFirstOnTies ==
    runs = 1 =>
        \E i \in 1..18 :
            /\ out_traffic.nearest_airport_icao = Registered[i]
            /\ \A k \in 1..18 : ToPoint(i) <= ToPoint(k)
            /\ \A k \in 1..(i - 1) : ToPoint(k) > ToPoint(i)
            /\ out_traffic.nearest_airport_km * 100 - ToPoint(i) \in -50..50

C15_Witness ==
    /\ runs = 1
    /\ \E i, k \in 1..18 :
          /\ i < k
          /\ ToPoint(i) = ToPoint(k)
          /\ \A j \in 1..18 : ToPoint(i) <= ToPoint(j)
          /\ out_traffic.nearest_airport_icao = Registered[i]

\* C17: the two classifiers agree on every callsign and registration-hex,
\* the military_<nation> labels of the choke-point classifier taken as the
\* monitor's 'military'.
AsMonitorLabel(label) ==
    IF label \in {"military_us", "military_dk", "military_ca"}
    THEN "military" ELSE label

C17_ClassifiersAgree ==
    runs = 1 =>
        out_traffic.classification = AsMonitorLabel(out_class.classification)

\* C16: the arrival flag is a boolean, true exactly when (on_ground is
\* true, or altitude is present and below 3000 and velocity is present and
\* below 100) and the distance is below 20 km; whatever the flag, the
\* observation is stored.
Observation == all_records[1][1]

C16_ArrivalFlag ==
    pc[1] # "idle" =>
        /\ Len(all_records[1]) = 1
        /\ Observation.icao24 = in_state.icao24
        /\ Observation.likely_arrival \in {"True", "False"}
        /\ Observation.likely_arrival = "True" <=>
              /\ \/ in_state.on_ground = "True"
                 \/ /\ in_state.altitude.present
                    /\ in_state.altitude.val < 3000
                    /\ in_state.velocity.present
                    /\ in_state.velocity.val < 100
              /\ in_state.dist < 20 * 1000

C16_Witness ==
    /\ pc[1] = "alerting"
    /\ Len(all_records[1]) = 1
    /\ in_state.on_ground = "True"
    /\ in_state.altitude = [present |-> FALSE, val |-> 0]
    /\ in_state.dist = 20 * 1000
    /\ Observation.likely_arrival = "False"

\* C18: one invocation on empty stores with the vector a12345 / N123AB on
\* the ground, altitude 500, velocity 10, 4.6 km from BGBW: priority 1,
\* private_us, arrival flag true, one alert in all and it is CRITICAL, and
\* one new dwell record for the key with first-seen = last-seen.
Scenario ==
    /\ in_state.icao24 = <<"a", "1", "2", "3", "4", "5">>
    /\ in_state.callsign = <<"N", "1", "2", "3", "A", "B">>
    /\ in_state.on_ground = "True"
    /\ in_state.altitude = [present |-> TRUE, val |-> 500]
    /\ in_state.velocity = [present |-> TRUE, val |-> 10]
    /\ in_state.dist = 4608

ScenarioKey == <<"a", "1", "2", "3", "4", "5", "_", "B", "G", "B", "W">>

OneFreshRecord ==
    /\ Len(dwell_file) = 1
    /\ dwell_file[1].key = ScenarioKey
    /\ dwell_file[1].first_seen = current_time[1]
    /\ dwell_file[1].last_seen = current_time[1]
    /\ dwell_file[1].dwell_tenths = 0

C18_EndToEnd ==
    Scenario =>
        /\ pc[1] # "idle" =>
              /\ Len(all_records[1]) = 1
              /\ Observation.priority = 1
              /\ Observation.classification = "private_us"
              /\ Observation.likely_arrival = "True"
        /\ After(1) =>
              /\ Len(all_alerts[1]) = 1
              /\ all_alerts[1][1].level = "CRITICAL"
              /\ OneFreshRecord
        /\ (Idle /\ runs = 1) =>
              /\ Len(alerts_file) = 1
              /\ alerts_file[1].level = "CRITICAL"
              /\ OneFreshRecord
              /\ finished[1] = "Done"

C18_Witness ==
    /\ Scenario
    /\ Idle /\ runs = 1
    /\ Len(alerts_file) = 1
    /\ alerts_file[1].level = "CRITICAL"
    /\ OneFreshRecord

(***************************************************************************)
(* C19.                                                                    *)
(***************************************************************************)
KeyedByPair(dd) ==
    \A e \in Entries(dd) : e.key = e.icao24 \o <<"_">> \o e.airport_icao

OnePerPair(dd) ==
    \A i, j \in 1..Len(dd) :
        (dd[i].icao24 = dd[j].icao24
            /\ dd[i].airport_icao = dd[j].airport_icao) => i = j

\* C19 (as claimed): in the persisted dwell store every key is
\* "<icao24>_<airport_icao>" of the record it maps to, there is at most
\* one record per pair, and the stored dwell_hours of every record equals
\* its last-seen minus its first-seen.
C19_StoredDwellIsTheDifference ==
    /\ KeyedByPair(dwell_file)
    /\ OnePerPair(dwell_file)
    /\ \A e \in Entries(dwell_file) :
          e.dwell_tenths * 360 = e.last_seen - e.first_seen

\* C19 (amended): the same, the stored dwell_hours being last-seen minus
\* first-seen in hours rounded to one decimal: the nearest tenth of an
\* hour, never negative.
C19_StoredDwellIsRounded ==
    /\ KeyedByPair(dwell_file)
    /\ OnePerPair(dwell_file)
    /\ \A e \in Entries(dwell_file) :
          /\ e.dwell_tenths >= 0
          /\ 360 * e.dwell_tenths - (e.last_seen - e.first_seen)
                \in -180..180

C19_Witness ==
    /\ Idle
    /\ Len(dwell_file) = 2
    /\ \E e \in Entries(dwell_file) :
          /\ e.last_seen - e.first_seen = 2400
          /\ e.dwell_tenths = 7

(***************************************************************************)
(* C20.                                                                    *)
(***************************************************************************)
StaleUnobserved(e) == Stale(e, current_time[1]) /\ ~Observed(1, e.key)

\* C20 (as claimed): an invocation at time T emits no extended-dwell alert
\* for a record last seen more than 48 hours before T that gets no
\* qualifying observation in the invocation.
C20_NoAlertForStaleRecord ==
    After(1) =>
        \A e \in Entries(loaded[1]) :
            StaleUnobserved(e) => AlertsFor(1, e) = {}

\* C20 (amended): the alerts are computed before the old records are
\* evicted.  Such a record yields one extended-dwell alert in the
\* invocation when it is at BGBW with a dwell of 4 hours or more, and none
\* otherwise; it is absent from the store the invocation writes, so no
\* later invocation emits an alert for it.
C20_StaleRecordAlertsOnceMore ==
    After(1) =>
        \A e \in Entries(loaded[1]) :
            StaleUnobserved(e) =>
                /\ Cardinality(AlertsFor(1, e)) =
                      IF e.airport_icao = <<"B","G","B","W">>
                         /\ e.last_seen - e.first_seen >= 4 * 3600
                      THEN 1 ELSE 0
                /\ e.key \notin KeysOf(dwell_file)

C20_Witness ==
    /\ After(1)
    /\ \E e \in Entries(loaded[1]) :
          /\ StaleUnobserved(e)
          /\ AlertsFor(1, e) # {}
          /\ e.key \notin KeysOf(dwell_file)

(***************************************************************************)
(* C21.                                                                    *)
(***************************************************************************)
Gaps(e) == { missed[e.key][i] : i \in 1..Len(missed[e.key]) }

\* A gap between two qualifying observations of the record: an invocation
\* later than its first and earlier than its last one that observed the
\* aircraft there not on the ground, or did not observe it there.
GapsWithin(e) ==
    { g \in Gaps(e) : e.first_seen < g.time /\ g.time < e.last_seen }

Labels ==
    {"scheduled", "military_us", "military_dk", "military_ca", "private_us",
     "private_ca", "private_eu", "private_is", "unknown"}

\* C22: for every label of classify_aircraft there is a callsign and a
\* registration that is a lowercase hexadecimal string which the
\* classifier maps to that label.
C22_EveryLabelReachable ==
    runs = 1 =>
        \A l \in Labels :
            \E s \in HexStates :
                classify_aircraft(s.callsign, s.icao24).classification = l

\* What the classifier does on these inputs: it gives one of the labels,
\* and never private_is.
HexNeverIcelandic ==
    runs = 1 => out_class.classification \in Labels \ {"private_is"}

====
